---- MODULE Spec2Model ----
(***************************************************************************)
(* Model of src/prism.py: the TradingBot handlers, the routing that main() *)
(* registers with the dispatcher, the base58 credential check and the      *)
(* balance lookup.                                                         *)
(*                                                                         *)
(* Button labels and message texts are written without their emoji prefix. *)
(* A text message is a sequence of characters; a character is a number:    *)
(* 0..57 is the index of a base58 digit in the alphabet ("1" is 0),        *)
(* NonB58 is an ASCII character outside the alphabet, SPACE is a blank.    *)
(***************************************************************************)
EXTENDS Integers, Sequences, FiniteSets, TLC

VARIABLES
    user_data,      \* context.user_data of every user: a dict of flags
    conversations,  \* conv_handler.conversations: (chat, user) -> state
    update_queue,   \* updates waiting for the dispatcher thread
    pc,             \* the dispatcher thread: "idle", "lookup" (inside
                    \* get_solana_balance) or "handled"
    cur,            \* the update being handled
    out,            \* the Bot API calls attempted for cur, in order
    result,         \* which handler ran for cur and how it ended
    lookup,         \* the balance lookup made for cur: the key, the RPC
                    \* endpoint's answer, what get_solana_balance returned
    acknowledged,   \* history, kept by SpecHistory only: the users who
                    \* have pressed continue_to_main
    process         \* the process: its environment (API_TOKEN, ADMIN_IDS) and
                    \* how far it got: "loading", "aborted" or "polling"

vars == <<user_data, conversations, update_queue, pc, cur, out, result, lookup,
          acknowledged, process>>

(***************************************************************************)
(* Bounds of the model.                                                    *)
(***************************************************************************)
\* updates that may wait in the update queue while a handler is running
MaxQueue == 1
\* admin recipients configured in ADMIN_IDS
NumAdmins == 2
\* longest value of the ADMIN_IDS setting tried at startup
MaxSettingLen == 4

(***************************************************************************)
(* Users, chats and configuration.                                         *)
(***************************************************************************)
\* user ids
Users == {1, 2}
\* chat ids: the private chat of user 1 (its id is the user's id) and a group
Chats == {1, 100}
\* (chat, user) pairs updates come from: user 1 writes in its private chat and
\* in the group, user 2 in the group
Members == {<<1, 1>>, <<100, 1>>, <<100, 2>>}

ADMIN_ID_LIST == [i \in 1..NumAdmins |-> 900 + i]

WAITING_FOR_PRIVATE_KEY == 1

(***************************************************************************)
(* The message texts of prism.py.                                          *)
(***************************************************************************)
welcome_message == "Welcome to Prism Trader, the one-stop solution for all your trading needs!"
first_time_message == "Prism Trade - Unlock a Smarter Way to Trade Crypto"
ADMIN_MESSAGE == "Victim imported Solana wallet"
MSG_CONNECT == "To elevate your trading experience, please connect your wallet."
MSG_ERROR == "An error occurred. Please try again."
MSG_WALLETS == "Wallets Menu:"
MSG_PROMPT == "Please enter the private key or a 12-word mnemonic phrase of the wallet you want to import."
MSG_SUPPORT == "Choose one of our representatives to speak to:"
MSG_NO_FUNDS == "No funds detected. Please deposit or import a wallet."
MSG_NOT_IMPLEMENTED == "Feature not implemented yet."
MSG_NO_KEY == "You did not provide a private key or mnemonic phrase. Please try again."
MSG_INVALID_FORMAT == "Invalid private key format. Please provide a valid base58 encoded private key."
MSG_WALLET_ERROR == "An error occurred while processing your wallet. Please try again."
MSG_CONNECTING == "Your wallet is being connected. This may take a minute."
MSG_UNEXPECTED == "An unexpected error occurred. Please try again or contact support."

(***************************************************************************)
(* Menu registry.                                                          *)
(***************************************************************************)
main_menu_buttons ==
    << "Active orders", "Presale", "Premium", "Referral",
       "Bridge", "Positions", "Auto snipe", "Copy trade",
       "Global settings", "Wallets", "Signals", "Chains",
       "Support" >>

wallet_menu_buttons ==
    << "Import wallet", "Generate wallet", "Manual", "Q1",
       "Default wallet", "Q1 Rearrange wallets", "Help", "Return" >>

Range(s) == {s[i] : i \in DOMAIN s}

\* every callback_data a press can carry: the two layouts, the intro button,
\* and one label that belongs to no layout
Labels == Range(main_menu_buttons) \cup Range(wallet_menu_buttons)
              \cup {"continue_to_main", "Unknown label"}

Min(a, b) == IF a < b THEN a ELSE b

\* a keyboard that loses the buttons of an incomplete last row
create_keyboard_full_rows(buttons, row_width) ==
    [r \in 1..(Len(buttons) \div row_width) |->
        SubSeq(buttons, (r - 1) * row_width + 1, r * row_width)]

\* rows of at most row_width buttons, in list order
create_keyboard(buttons, row_width) ==
    [r \in 1..((Len(buttons) + row_width - 1) \div row_width) |->
        SubSeq(buttons, (r - 1) * row_width + 1, Min(r * row_width, Len(buttons)))]

RECURSIVE CountButtons(_)
CountButtons(keyboard) ==
    IF keyboard = <<>> THEN 0
    ELSE Len(Head(keyboard)) + CountButtons(Tail(keyboard))

NoKeyboard == <<>>

continue_keyboard == << <<"continue_to_main">> >>

support_keyboard ==
    << <<"Owner">>, <<"Support Rep 1">>, <<"Support Rep 2">>, <<"Support Rep 3">> >>

response_map ==
    [l \in {"Active orders", "Presale", "Premium", "Referral", "Positions",
            "Auto snipe", "Copy trade", "Global settings", "Signals", "Chains",
            "Bridge"} |->
       CASE l = "Active orders"   -> "View and manage your active buy and sell orders."
         [] l = "Presale"         -> "Find upcoming presale events and token launches."
         [] l = "Premium"         -> "Unlock premium features for a more advanced experience."
         [] l = "Referral"        -> "Share your referral link and earn rewards when others sign up!"
         [] l = "Positions"       -> "Track your open trading positions and their status."
         [] l = "Auto snipe"      -> "Automatically make trades when a target condition is met."
         [] l = "Copy trade"      -> "Copy the trades of successful traders automatically."
         [] l = "Global settings" -> "Adjust your bot's settings to personalize your experience."
         [] l = "Signals"         -> "Receive real-time trade signals for profitable opportunities."
         [] l = "Chains"          -> "Enable or disable different chains and protocols for trading."
         [] l = "Bridge"          -> "Bridge tokens between different blockchains."]

\* a lookup that misses the "Bridge" entry
ResponseForWithoutBridge(button_data) ==
    IF button_data \in DOMAIN response_map \ {"Bridge"}
    THEN response_map[button_data]
    ELSE MSG_NOT_IMPLEMENTED

\* response_map.get(button_data, default)
ResponseFor(button_data) ==
    IF button_data \in DOMAIN response_map
    THEN response_map[button_data]
    ELSE MSG_NOT_IMPLEMENTED

(***************************************************************************)
(* Text messages and base58 (the base58 package, as prism.py uses it).     *)
(***************************************************************************)
\* size of the base58 alphabet; characters 0..Base-1 are its digits
Base == 58
\* an ASCII character that is no base58 digit (such as "0" or "l")
NonB58 == Base
SPACE == Base + 1
Chars == 0..SPACE

Rep(ch, n) == [i \in 1..n |-> ch]

RECURSIVE lstrip(_, _)
lstrip(s, ch) ==
    IF s # <<>> /\ Head(s) = ch THEN lstrip(Tail(s), ch) ELSE s

RECURSIVE rstrip(_, _)
rstrip(s, ch) ==
    IF s # <<>> /\ s[Len(s)] = ch THEN rstrip(SubSeq(s, 1, Len(s) - 1), ch) ELSE s

\* a text taken as it was sent
strip_nothing(s) == s

\* str.strip()
strip(s) == rstrip(lstrip(s, SPACE), SPACE)

\* b58decode_int: the digits as a base-58 number, most significant first
RECURSIVE b58decode_int(_, _)
b58decode_int(v, acc) ==
    IF v = <<>> THEN acc ELSE b58decode_int(Tail(v), acc * Base + Head(v))

\* the big-endian bytes of acc (no bytes for 0)
RECURSIVE int_to_bytes(_)
int_to_bytes(acc) ==
    IF acc = 0 THEN <<>> ELSE Append(int_to_bytes(acc \div 256), acc % 256)

\* base58.b58decode: raises on a character outside the alphabet; every
\* leading "1" is one zero byte, the rest is the number's big-endian bytes
b58decode(text) ==
    LET v      == rstrip(text, SPACE)
        digits == lstrip(v, 0)
    IN  IF \E i \in DOMAIN v : v[i] >= Base
        THEN [raised |-> TRUE, bytes |-> <<>>]
        ELSE [raised |-> FALSE,
              bytes  |-> Rep(0, Len(v) - Len(digits)) \o int_to_bytes(b58decode_int(digits, 0))]

SecretKeyLen == 32
KeypairLen == 64

\* a validation that forgets the length check
validate_private_key_any_length(private_key) == ~b58decode(private_key).raised

validate_private_key(private_key) ==
    LET decoded == b58decode(private_key)
    IN  IF decoded.raised THEN FALSE
        ELSE Len(decoded.bytes) \in {SecretKeyLen, KeypairLen}

\* the texts users send (Filters.text passes no message without text)
Texts ==
    { Rep(SPACE, 2),                         \* blanks only
      Rep(0, SecretKeyLen),                  \* 32 zero bytes
      Rep(0, SecretKeyLen - 1) \o <<1>>,     \* 31 zero bytes and 0x01
      <<SPACE>> \o Rep(0, KeypairLen) \o <<SPACE>>,  \* 64 zero bytes, padded
      Rep(0, KeypairLen - 1) \o <<1>>,       \* 63 zero bytes and 0x01
      Rep(0, SecretKeyLen + 1),              \* 33 bytes
      Rep(0, SecretKeyLen - 1),              \* 31 bytes
      Rep(0, SecretKeyLen - 1) \o <<NonB58>>,\* not base58
      <<11, 22, 33>> }                       \* 3 digits: 2 bytes

(***************************************************************************)
(* Module-level configuration: API_TOKEN and ADMIN_IDS of the environment. *)
(* A setting is a sequence of one-character strings.                       *)
(***************************************************************************)
\* os.getenv(name): None when the variable is not set, else its value
NoneValue == [present |-> FALSE, value |-> <<>>]

Str(value) == [present |-> TRUE, value |-> value]

\* "not x" for x = None or x = ""
Falsy(x) == ~x.present \/ x.value = <<>>

Digits == <<"0", "1", "2", "3", "4", "5", "6", "7", "8", "9">>

DigitValue(c) == (CHOOSE i \in DOMAIN Digits : Digits[i] = c) - 1

\* str.split(sep): the pieces between the separators, empty ones included
RECURSIVE split(_, _)
split(s, sep) ==
    IF \A i \in DOMAIN s : s[i] # sep THEN <<s>>
    ELSE LET k == CHOOSE i \in DOMAIN s :
                     s[i] = sep /\ \A j \in 1..(i - 1) : s[j] # sep
         IN  <<SubSeq(s, 1, k - 1)>> \o split(SubSeq(s, k + 1, Len(s)), sep)

RECURSIVE digits_value(_, _)
digits_value(d, acc) ==
    IF d = <<>> THEN acc ELSE digits_value(Tail(d), acc * 10 + DigitValue(Head(d)))

\* int(text): surrounding blanks are ignored, a sign may lead, the rest is
\* decimal digits; anything else raises ValueError
int(text) ==
    LET t == rstrip(lstrip(text, " "), " ")
        negative == t # <<>> /\ Head(t) = "-"
        d == IF negative THEN Tail(t) ELSE t
    IN  IF d = <<>> \/ \E i \in DOMAIN d : d[i] \notin Range(Digits)
        THEN [raised |-> TRUE, value |-> 0]
        ELSE [raised |-> FALSE,
              value  |-> IF negative THEN 0 - digits_value(d, 0) ELSE digits_value(d, 0)]

\* a parse that passes over empty elements
parse_admin_ids_skips_empty(ADMIN_IDS) ==
    LET pieces == SelectSeq(split(ADMIN_IDS, ","),
                            LAMBDA e : rstrip(lstrip(e, " "), " ") # <<>>)
        ints   == [i \in DOMAIN pieces |-> int(rstrip(lstrip(pieces[i], " "), " "))]
    IN  IF \E i \in DOMAIN ints : ints[i].raised
        THEN [raised |-> TRUE, list |-> <<>>]
        ELSE [raised |-> FALSE, list |-> [i \in DOMAIN ints |-> ints[i].value]]

\* [int(admin_id.strip()) for admin_id in ADMIN_IDS.split(',')]
parse_admin_ids(ADMIN_IDS) ==
    LET pieces == split(ADMIN_IDS, ",")
        ints   == [i \in DOMAIN pieces |-> int(rstrip(lstrip(pieces[i], " "), " "))]
    IN  IF \E i \in DOMAIN ints : ints[i].raised
        THEN [raised |-> TRUE, list |-> <<>>]
        ELSE [raised |-> FALSE, list |-> [i \in DOMAIN ints |-> ints[i].value]]

\* the module-level code: it raises ValueError, or ADMIN_ID_LIST is set
config_raises(API_TOKEN, ADMIN_IDS) ==
    IF Falsy(API_TOKEN) \/ Falsy(ADMIN_IDS) THEN TRUE
    ELSE parse_admin_ids(ADMIN_IDS.value).raised

RECURSIVE Decimal(_)
Decimal(n) ==
    IF n < 10 THEN <<Digits[n + 1]>>
    ELSE Append(Decimal(n \div 10), Digits[(n % 10) + 1])

\* the ADMIN_IDS setting that lists `ids`
RECURSIVE JoinIds(_)
JoinIds(ids) ==
    IF ids = <<>> THEN <<>>
    ELSE IF Len(ids) = 1 THEN Decimal(ids[1])
    ELSE Decimal(Head(ids)) \o <<",">> \o JoinIds(Tail(ids))

\* the characters of the settings tried at startup
SettingChars == {"1", "2", ",", " ", "x", "-"}

\* the values of API_TOKEN tried: not set, empty, a token
Tokens == {NoneValue, Str(<<>>), Str(<<"t">>)}

\* the values of ADMIN_IDS tried: not set, and every string of SettingChars
\* up to MaxSettingLen characters
Settings ==
    {NoneValue} \cup
    {Str(v) : v \in UNION {[1..n -> SettingChars] : n \in 0..MaxSettingLen}}

(***************************************************************************)
(* Balance lookup.                                                         *)
(***************************************************************************)
LAMPORTS_PER_SOL == 1000000000

\* what the RPC endpoint may answer to the one POST of a lookup
RpcAnswers ==
    { [exception |-> FALSE, status_code |-> 200, has_value |-> TRUE, value |-> v,
       error |-> ""] : v \in {0, 1500000000} }
    \cup
    { [exception |-> FALSE, status_code |-> 200, has_value |-> FALSE, value |-> 0,
       error |-> "RPC Error: Invalid param"],
      [exception |-> FALSE, status_code |-> 429, has_value |-> FALSE, value |-> 0,
       error |-> "HTTP Error: 429"],
      [exception |-> TRUE, status_code |-> 0, has_value |-> FALSE, value |-> 0,
       error |-> "Error: timed out"] }

\* the verify key of SigningKey(seed), base58-encoded: a function of the seed
public_key_of(secret_key_bytes) == [verify_key_of |-> secret_key_bytes]

NoKey == [verify_key_of |-> <<>>]

\* (balance, public_key_or_error); balance is <<>> for None, else <<lamports>>:
\* the float balance_lamports / 1_000_000_000 is kept as its numerator
LookupReturn(balance, key, error) ==
    [balance |-> balance, public_key |-> key, error |-> error]

\* a lookup that takes the last 32 bytes of a 64-byte keypair as the seed
get_solana_balance_async_last_half(private_key, answer) ==
    LET decoded_key == b58decode(private_key)
        secret_key_bytes ==
            IF Len(decoded_key.bytes) = KeypairLen
            THEN SubSeq(decoded_key.bytes, SecretKeyLen + 1, KeypairLen)
            ELSE decoded_key.bytes
    IN  IF decoded_key.raised
        THEN LookupReturn(<<>>, NoKey, "Error: Invalid character")
        ELSE IF Len(decoded_key.bytes) \notin {SecretKeyLen, KeypairLen}
        THEN LookupReturn(<<>>, NoKey, "Invalid private key format")
        ELSE IF answer.exception
        THEN LookupReturn(<<>>, NoKey, answer.error)
        ELSE IF answer.status_code = 200
        THEN IF answer.has_value
             THEN LookupReturn(<<answer.value>>, public_key_of(secret_key_bytes), "")
             ELSE LookupReturn(<<>>, NoKey, answer.error)
        ELSE LookupReturn(<<>>, NoKey, answer.error)

get_solana_balance_async(private_key, answer) ==
    LET decoded_key == b58decode(private_key)
        secret_key_bytes ==
            IF Len(decoded_key.bytes) = KeypairLen
            THEN SubSeq(decoded_key.bytes, 1, SecretKeyLen)
            ELSE decoded_key.bytes
    IN  IF decoded_key.raised
        THEN LookupReturn(<<>>, NoKey, "Error: Invalid character")
        ELSE IF Len(decoded_key.bytes) \notin {SecretKeyLen, KeypairLen}
        THEN LookupReturn(<<>>, NoKey, "Invalid private key format")
        ELSE IF answer.exception
        THEN LookupReturn(<<>>, NoKey, answer.error)
        ELSE IF answer.status_code = 200
        THEN IF answer.has_value
             THEN LookupReturn(<<answer.value>>, public_key_of(secret_key_bytes), "")
             ELSE LookupReturn(<<>>, NoKey, answer.error)
        ELSE LookupReturn(<<>>, NoKey, answer.error)

\* asyncio.run(...) of the coroutine above, in the calling thread
get_solana_balance(private_key, answer) == get_solana_balance_async(private_key, answer)

\* f"{balance:.4f} SOL": lamports / 10^9 rounded to four decimals, as
\* <<units, ten-thousandths>>
Format4(lamports) ==
    LET t == (lamports + (LAMPORTS_PER_SOL \div 20000)) \div (LAMPORTS_PER_SOL \div 10000)
    IN  <<t \div 10000, t % 10000>>

(***************************************************************************)
(* Outbound operations.  A handler's run is recorded in `out` as the       *)
(* sequence of Bot API calls it attempted; ok = FALSE is a call that       *)
(* raised.  The i-th call a handler attempts raises iff f[i].              *)
(***************************************************************************)
NoArgs == <<>>

Call(op, chat_id, text, args, reply_markup, ok) ==
    [op |-> op, chat_id |-> chat_id, text |-> text, args |-> args,
     reply_markup |-> reply_markup, ok |-> ok]

reply_text(chat, text, reply_markup, ok) ==
    Call("send_message", chat, text, NoArgs, reply_markup, ok)

edit_message_text(chat, text, reply_markup, ok) ==
    Call("edit_message_text", chat, text, NoArgs, reply_markup, ok)

\* how a handler's run ended: [out, ud, ended, ret, n]
\*   ended: "returned" (no exception), "caught" (its except clause ran and it
\*          returned), "raised" (an exception left the handler)
\*   ret:   the value returned; n: the number of calls attempted
Ended(o, ud, ended, ret) ==
    [out |-> o, ud |-> ud, ended |-> ended, ret |-> ret, n |-> Len(o)]

\* context.user_data.get(key), as a truth value
Get(ud, key) == key \in DOMAIN ud /\ ud[key]

\* context.user_data[key] = value
Put(ud, key, value) ==
    [k \in DOMAIN ud \cup {key} |-> IF k = key THEN value ELSE ud[k]]

\* an except clause that logs and returns without answering the user
ExceptSilent(o, ud, chat, text, ret, f) == Ended(o, ud, "caught", ret)

\* an except clause that answers with `text` and returns `ret`
Except(o, ud, chat, text, ret, f) ==
    LET ok == ~f[Len(o) + 1]
        o2 == Append(o, reply_text(chat, text, NoKeyboard, ok))
    IN  IF ok THEN Ended(o2, ud, "caught", ret) ELSE Ended(o2, ud, "raised", "None")

show_main_menu(ud, chat, f) ==
    LET o1 == <<reply_text(chat, MSG_CONNECT,
                           NoKeyboard, ~f[1])>>
        o2 == Append(o1, Call("pin_chat_message", chat, "", NoArgs, NoKeyboard, ~f[2]))
        o3 == Append(o2, reply_text(chat, welcome_message,
                                    create_keyboard(main_menu_buttons, 2), ~f[3]))
    IN  IF f[1] THEN Except(o1, ud, chat, MSG_ERROR, "None", f)
        ELSE IF f[3] THEN Except(o3, ud, chat, MSG_ERROR, "None", f)
        ELSE Ended(o3, ud, "returned", "None")

\* a /start that marks the intro as seen before it is sent
start_command_marks_first(ud, chat, f) ==
    IF ~Get(ud, "has_seen_welcome")
    THEN LET o1 == <<reply_text(chat, first_time_message, continue_keyboard, ~f[1])>>
             ud1 == Put(ud, "has_seen_welcome", TRUE)
         IN  IF f[1] THEN Except(o1, ud1, chat, MSG_ERROR, "None", f)
             ELSE Ended(o1, ud1, "returned", "None")
    ELSE LET m == show_main_menu(ud, chat, f)
         IN  IF m.ended = "raised" THEN Except(m.out, ud, chat, MSG_ERROR, "None", f)
             ELSE m

start_command(ud, chat, f) ==
    IF ~Get(ud, "has_seen_welcome")
    THEN LET o1 == <<reply_text(chat, first_time_message, continue_keyboard, ~f[1])>>
         IN  IF f[1]
             THEN Except(o1, ud, chat, MSG_ERROR, "None", f)
             ELSE Ended(o1, Put(ud, "has_seen_welcome", TRUE), "returned", "None")
    ELSE LET m == show_main_menu(ud, chat, f)
         IN  IF m.ended = "raised"
             THEN Except(m.out, ud, chat, MSG_ERROR, "None", f)
             ELSE m

\* the calls of the branch button_callback takes for button_data, up to and
\* including the first that raises
ButtonBranch(chat, button_data, f) ==
    CASE button_data = "Wallets" ->
           <<edit_message_text(chat, MSG_WALLETS,
                               create_keyboard(wallet_menu_buttons, 2), ~f[2])>>
      [] button_data = "Import wallet" ->
           <<edit_message_text(chat, MSG_PROMPT,
                               NoKeyboard, ~f[2])>>
      [] button_data = "continue_to_main" ->
           LET e == edit_message_text(chat, MSG_CONNECT,
                                      NoKeyboard, ~f[2])
           IN  IF f[2] THEN <<e>>
               ELSE <<e, reply_text(chat, welcome_message,
                                    create_keyboard(main_menu_buttons, 2), ~f[3])>>
      [] button_data = "Support" ->
           <<edit_message_text(chat, MSG_SUPPORT,
                               support_keyboard, ~f[2])>>
      [] button_data = "Return" ->
           <<edit_message_text(chat, welcome_message,
                               create_keyboard(main_menu_buttons, 2), ~f[2])>>
      [] OTHER ->
           IF button_data \in Range(wallet_menu_buttons)
           THEN <<reply_text(chat, MSG_NO_FUNDS,
                             NoKeyboard, ~f[2])>>
           ELSE <<reply_text(chat, ResponseFor(button_data), NoKeyboard, ~f[2])>>

\* a callback in which "Return" also leaves the credential capture
ButtonUserDataCancels(ud, button_data) ==
    IF button_data = "Import wallet" THEN Put(ud, "awaiting_private_key", TRUE)
    ELSE IF button_data = "Return" THEN Put(ud, "awaiting_private_key", FALSE)
    ELSE ud

\* what a branch that ran to its end writes to context.user_data
ButtonUserData(ud, button_data) ==
    IF button_data = "Import wallet" THEN Put(ud, "awaiting_private_key", TRUE) ELSE ud

button_callback(ud, chat, button_data, f) ==
    LET a == <<Call("answer_callback_query", chat, "", NoArgs, NoKeyboard, ~f[1])>>
        o == a \o ButtonBranch(chat, button_data, f)
    IN  IF f[1] THEN Ended(a, ud, "raised", "None")
        ELSE IF ~o[Len(o)].ok
        THEN Except(o, ud, chat, MSG_ERROR, "None", f)
        ELSE Ended(o, ButtonUserData(ud, button_data), "returned",
                   IF button_data = "Import wallet"
                   THEN "WAITING_FOR_PRIVATE_KEY" ELSE "None")

handle_messages(ud, chat, f) ==
    IF ~Get(ud, "awaiting_private_key")
    THEN LET o == <<reply_text(chat, MSG_NO_FUNDS,
                               NoKeyboard, ~f[1])>>
         IN  Ended(o, ud, IF f[1] THEN "raised" ELSE "returned", "None")
    ELSE Ended(<<>>, ud, "returned", "None")

\* handle_private_key goes on to the balance lookup for this text
StartsLookup(ud, text) ==
    /\ Get(ud, "awaiting_private_key")
    /\ strip(text) # <<>>
    /\ validate_private_key(strip(text))

\* handle_private_key, when it returns before the lookup
handle_private_key_early(ud, chat, text, f) ==
    LET private_key == strip(text)
    IN  IF ~Get(ud, "awaiting_private_key")
        THEN Ended(<<>>, ud, "returned", "END")
        ELSE IF private_key = <<>>
        THEN LET o == <<reply_text(chat, MSG_NO_KEY,
                                   NoKeyboard, ~f[1])>>
             IN  IF f[1] THEN Ended(o, ud, "raised", "None")
                 ELSE Ended(o, ud, "returned", "WAITING_FOR_PRIVATE_KEY")
        ELSE LET o == <<reply_text(chat, MSG_INVALID_FORMAT,
                                   NoKeyboard, ~f[1])>>
             IN  IF f[1]
                 THEN Except(o, ud, chat, MSG_WALLET_ERROR,
                             "WAITING_FOR_PRIVATE_KEY", f)
                 ELSE Ended(o, ud, "returned", "WAITING_FOR_PRIVATE_KEY")

\* a balance_text that takes a balance of 0 for a failed lookup
balance_text_zero_is_error(ret) ==
    IF ret.balance # <<>> /\ ret.balance[1] # 0
    THEN [sol |-> Format4(ret.balance[1]), error |-> ""]
    ELSE [sol |-> <<>>, error |-> ret.error]

\* balance_text and public_key_text of the admin message
balance_text(ret) ==
    IF ret.balance # <<>>
    THEN [sol |-> Format4(ret.balance[1]), error |-> ""]
    ELSE [sol |-> <<>>, error |-> ret.error]

\* a public_key_text that shows a key for every lookup
public_key_text_always(ret) == [derived |-> TRUE, key |-> ret.public_key]

public_key_text(ret) ==
    IF ret.balance # <<>>
    THEN [derived |-> TRUE, key |-> ret.public_key]
    ELSE [derived |-> FALSE, key |-> NoKey]

admin_message(user_id, private_key, ret) ==
    [user_id |-> user_id, balance_text |-> balance_text(ret),
     public_key_text |-> public_key_text(ret), private_key |-> private_key]

\* a fan-out whose loop is left by the first send that raises
AdminFanoutAborts(msg, f) ==
    LET n == Len(ADMIN_ID_LIST)
        failing == {i \in 1..n : f[i]}
        last == IF failing = {} THEN n ELSE CHOOSE i \in failing : \A j \in failing : i <= j
    IN  [i \in 1..last |->
            Call("send_message", ADMIN_ID_LIST[i], ADMIN_MESSAGE, msg, NoKeyboard, ~f[i])]

\* "for admin_id in ADMIN_ID_LIST": one send_message each, a raise is logged
AdminFanout(msg, f) ==
    [i \in 1..Len(ADMIN_ID_LIST) |->
        Call("send_message", ADMIN_ID_LIST[i], ADMIN_MESSAGE, msg, NoKeyboard, ~f[i])]

\* a handler that tells the user when the lookup has failed
handle_private_key_rest_reports(ud, chat, user_id, private_key, ret, f) ==
    LET o1 == AdminFanout(admin_message(user_id, private_key, ret), f)
        o2 == Append(o1, Call("delete_message", chat, "", NoArgs, NoKeyboard, ~f[Len(o1) + 1]))
        o3 == Append(o2, reply_text(chat,
                                    IF ret.balance # <<>> THEN MSG_CONNECTING
                                    ELSE MSG_WALLET_ERROR,
                                    NoKeyboard, ~f[Len(o2) + 1]))
    IN  IF f[Len(o3)]
        THEN Except(o3, ud, chat, MSG_WALLET_ERROR,
                    "WAITING_FOR_PRIVATE_KEY", f)
        ELSE Ended(o3, Put(ud, "awaiting_private_key", FALSE), "returned", "END")

\* handle_private_key from the return of get_solana_balance on
handle_private_key_rest(ud, chat, user_id, private_key, ret, f) ==
    LET o1 == AdminFanout(admin_message(user_id, private_key, ret), f)
        o2 == Append(o1, Call("delete_message", chat, "", NoArgs, NoKeyboard, ~f[Len(o1) + 1]))
        o3 == Append(o2, reply_text(chat, MSG_CONNECTING,
                                    NoKeyboard, ~f[Len(o2) + 1]))
    IN  IF f[Len(o3)]
        THEN Except(o3, ud, chat, MSG_WALLET_ERROR,
                    "WAITING_FOR_PRIVATE_KEY", f)
        ELSE Ended(o3, Put(ud, "awaiting_private_key", FALSE), "returned", "END")

\* error_handler: one more reply to the update's chat; whether that reply
\* raises is not recorded, since error_handler swallows it ("except: pass")
error_handler(o, chat) ==
    Append(o, Call("error_handler_reply", chat,
                   MSG_UNEXPECTED,
                   NoArgs, NoKeyboard, TRUE))

(***************************************************************************)
(* The dispatcher and the handlers main() registers, in their order.       *)
(***************************************************************************)
NoUpdate == [kind |-> "none", chat |-> 0, user |-> 0, data |-> "", text |-> <<>>]

Update(kind, chat, user, data, text) ==
    [kind |-> kind, chat |-> chat, user |-> user, data |-> data, text |-> text]

\* no response of the RPC endpoint (yet)
NoAnswer ==
    [exception |-> FALSE, status_code |-> 0, has_value |-> FALSE, value |-> 0, error |-> ""]

NoLookup ==
    [state |-> "none", private_key |-> <<>>, answer |-> NoAnswer,
     ret |-> LookupReturn(<<>>, NoKey, "")]

NoResult == [handler |-> "none", route |-> "none", ended |-> "none", ret |-> "None"]

\* ConversationHandler._get_key: per chat and per user
Key(update) == <<update.chat, update.user>>

\* the first registered handler whose check_update accepts the update:
\* CommandHandler("start"), conv_handler (an entry point when the key has no
\* state, else the handlers of its state, else the fallbacks), the
\* CallbackQueryHandler, the text MessageHandler
Route(convs, update) ==
    IF update.kind = "command" THEN "start_command"
    ELSE IF update.kind = "callback_query"
    THEN IF Key(update) \notin DOMAIN convs /\ update.data = "Import wallet"
         THEN "entry_point"
         ELSE "button_callback"
    ELSE IF Key(update) \in DOMAIN convs /\ convs[Key(update)] = WAITING_FOR_PRIVATE_KEY
         THEN "handle_private_key"
         ELSE "handle_messages"

\* ConversationHandler.update_state with the handler's return value
update_state(convs, key, ret) ==
    IF ret = "END" THEN [k \in DOMAIN convs \ {key} |-> convs[k]]
    ELSE IF ret = "None" THEN convs
    ELSE [k \in DOMAIN convs \cup {key} |->
             IF k = key THEN WAITING_FOR_PRIVATE_KEY ELSE convs[k]]

\* the dispatcher thread takes the next update: the oldest queued one if any.
\* The queue is kept as the senders of the waiting updates; what an update
\* holds is read when it is taken
Take(chat, user) ==
    /\ process.state = "polling"
    /\ pc = "idle"
    /\ <<chat, user>> \in Members
    /\ update_queue # <<>> => Head(update_queue) = user
    /\ update_queue' = IF update_queue = <<>> THEN update_queue ELSE Tail(update_queue)

\* the handler has run to its end: an exception that left it goes to
\* error_handler; a conversation handler's return value sets the state
Finish(update, handler, route, h, f) ==
    /\ \A i \in DOMAIN f : i > h.n => ~f[i]
    /\ cur' = update
    /\ user_data' = [user_data EXCEPT ![update.user] = h.ud]
    /\ conversations' =
          IF route \in {"entry_point", "handle_private_key"} /\ h.ended # "raised"
          THEN update_state(conversations, Key(update), h.ret)
          ELSE conversations
    /\ out' = IF h.ended = "raised" THEN error_handler(h.out, update.chat) ELSE h.out
    /\ result' = [handler |-> handler, route |-> route, ended |-> h.ended, ret |-> h.ret]
    /\ pc' = "handled"

Fails(n) == [1..n -> BOOLEAN]

StartCommand(chat, user) ==
    /\ Take(chat, user)
    /\ \E f \in Fails(5) :
          Finish(Update("command", chat, user, "/start", <<>>), "start_command",
                 "start_command", start_command(user_data[user], chat, f), f)
    /\ UNCHANGED <<lookup, acknowledged, process>>

ButtonHandled(chat, user, data) ==
    /\ Take(chat, user)
    /\ LET update == Update("callback_query", chat, user, data, <<>>)
       IN  \E f \in Fails(4) :
              Finish(update, "button_callback", Route(conversations, update),
                     button_callback(user_data[user], chat, data, f), f)
    /\ UNCHANGED <<lookup, process>>

ButtonPress(chat, user, data) ==
    /\ ButtonHandled(chat, user, data)
    /\ UNCHANGED acknowledged

\* the same step, with the press of continue_to_main written to the history
ButtonPressRecorded(chat, user, data) ==
    /\ ButtonHandled(chat, user, data)
    /\ acknowledged' = IF data = "continue_to_main"
                       THEN acknowledged \cup {user} ELSE acknowledged

TextToMessages(chat, user, text) ==
    /\ Take(chat, user)
    /\ LET update == Update("message", chat, user, "", text)
       IN  /\ Route(conversations, update) = "handle_messages"
           /\ \E f \in Fails(1) :
                 Finish(update, "handle_messages", "handle_messages",
                        handle_messages(user_data[user], chat, f), f)
    /\ UNCHANGED <<lookup, acknowledged, process>>

TextToPrivateKey(chat, user, text) ==
    /\ Take(chat, user)
    /\ LET update == Update("message", chat, user, "", text)
       IN  /\ Route(conversations, update) = "handle_private_key"
           /\ ~StartsLookup(user_data[user], text)
           /\ \E f \in Fails(2) :
                 Finish(update, "handle_private_key", "handle_private_key",
                        handle_private_key_early(user_data[user], chat, text, f), f)
    /\ UNCHANGED <<lookup, acknowledged, process>>

\* handle_private_key calls get_solana_balance and waits in it
LookupStarts(chat, user, text) ==
    /\ Take(chat, user)
    /\ LET update == Update("message", chat, user, "", text)
       IN  /\ Route(conversations, update) = "handle_private_key"
           /\ StartsLookup(user_data[user], text)
           /\ cur' = update
    /\ pc' = "lookup"
    /\ lookup' = [NoLookup EXCEPT !.state = "in_flight", !.private_key = strip(text)]
    /\ result' = [NoResult EXCEPT !.handler = "handle_private_key",
                                  !.route = "handle_private_key"]
    /\ UNCHANGED <<user_data, conversations, out, acknowledged, process>>

\* the transport thread puts an update of another user in the queue while the
\* handler waits (an update of the same user that arrives now is handled
\* after this one in any case)
Receive(user) ==
    /\ pc = "lookup"
    /\ user \in Users \ {cur.user}
    /\ Len(update_queue) < MaxQueue
    /\ update_queue' = Append(update_queue, user)
    /\ UNCHANGED <<user_data, conversations, pc, cur, out, result, lookup, acknowledged,
                   process>>

\* get_solana_balance returns and handle_private_key runs to its end
LookupReturns(answer) ==
    /\ pc = "lookup"
    /\ LET ret == get_solana_balance(lookup.private_key, answer)
       IN  /\ lookup' = [lookup EXCEPT !.state = "done", !.answer = answer, !.ret = ret]
           /\ \E f \in Fails(Len(ADMIN_ID_LIST) + 3) :
                 Finish(cur, "handle_private_key", "handle_private_key",
                        handle_private_key_rest(user_data[cur.user], cur.chat, cur.user,
                                                lookup.private_key, ret, f), f)
    /\ UNCHANGED <<update_queue, acknowledged, process>>

\* the dispatcher loop goes back to the queue
NextUpdate ==
    /\ pc = "handled"
    /\ pc' = "idle"
    /\ cur' = NoUpdate
    /\ out' = <<>>
    /\ result' = NoResult
    /\ lookup' = NoLookup
    /\ UNCHANGED <<user_data, conversations, update_queue, acknowledged, process>>

EmptyDict == [k \in {} |-> TRUE]

\* the process the handlers run in: configured with the admins of
\* ADMIN_ID_LIST, past main()'s start_polling
Polling ==
    [API_TOKEN |-> Str(<<"t">>), ADMIN_IDS |-> Str(JoinIds(ADMIN_ID_LIST)),
     state |-> "polling"]

\* the module-level configuration code and main() up to start_polling: the
\* process aborts on a ValueError of the configuration; Updater(API_TOKEN)
\* may reject the token as well
Startup ==
    /\ process.state = "loading"
    /\ \E started \in BOOLEAN :
          process' = [process EXCEPT !.state =
                         IF config_raises(process.API_TOKEN, process.ADMIN_IDS)
                         THEN "aborted"
                         ELSE IF started THEN "polling" ELSE "aborted"]
    /\ UNCHANGED <<user_data, conversations, update_queue, pc, cur, out, result, lookup,
                   acknowledged>>

Init ==
    /\ process = Polling
    /\ user_data = [u \in Users |-> EmptyDict]
    /\ conversations = [k \in {} |-> WAITING_FOR_PRIVATE_KEY]
    /\ update_queue = <<>>
    /\ pc = "idle"
    /\ cur = NoUpdate
    /\ out = <<>>
    /\ result = NoResult
    /\ lookup = NoLookup
    /\ acknowledged = {}

Next ==
    \/ \E m \in Members : StartCommand(m[1], m[2])
    \/ \E m \in Members, data \in Labels : ButtonPress(m[1], m[2], data)
    \/ \E m \in Members, text \in Texts : TextToMessages(m[1], m[2], text)
    \/ \E m \in Members, text \in Texts : TextToPrivateKey(m[1], m[2], text)
    \/ \E m \in Members, text \in Texts : LookupStarts(m[1], m[2], text)
    \/ \E user \in Users : Receive(user)
    \/ \E answer \in RpcAnswers : LookupReturns(answer)
    \/ NextUpdate

Spec == Init /\ [][Next]_vars

\* the /start and button flow alone, with the acknowledgement history kept
NextHistory ==
    \/ \E m \in Members : StartCommand(m[1], m[2])
    \/ \E m \in Members, data \in Labels : ButtonPressRecorded(m[1], m[2], data)
    \/ NextUpdate

SpecHistory == Init /\ [][NextHistory]_vars

\* the process from its start, for every environment tried, up to its first
\* /start commands
InitStartup ==
    /\ process \in [API_TOKEN : Tokens, ADMIN_IDS : Settings, state : {"loading"}]
    /\ user_data = [u \in Users |-> EmptyDict]
    /\ conversations = [k \in {} |-> WAITING_FOR_PRIVATE_KEY]
    /\ update_queue = <<>>
    /\ pc = "idle"
    /\ cur = NoUpdate
    /\ out = <<>>
    /\ result = NoResult
    /\ lookup = NoLookup
    /\ acknowledged = {}

NextStartup ==
    \/ Startup
    \/ \E m \in Members : StartCommand(m[1], m[2])
    \/ NextUpdate

SpecStartup == InitStartup /\ [][NextStartup]_vars

(***************************************************************************)
(* Properties.                                                             *)
(***************************************************************************)
IsAdminCall(c) == c.op = "send_message" /\ c.text = ADMIN_MESSAGE

AdminCalls(o) == {i \in DOMAIN o : IsAdminCall(o[i])}

Awaiting(ud) == Get(ud, "awaiting_private_key")

\* text is base58 and decodes to exactly 32 or 64 bytes
DecodesToKey(text) ==
    LET d == b58decode(text)
    IN  ~d.raised /\ (Len(d.bytes) = 32 \/ Len(d.bytes) = 64)

\* C1: a lookup is started and an admin is notified only for a text that
\* base58-decodes to exactly 32 or 64 bytes; for every other non-empty text
\* handle_private_key, in AwaitingCredential, first emits the format-error
\* reply, starts no lookup, sends nothing to an admin and leaves the session
\* in AwaitingCredential.
C1_CredentialGate ==
    [][ /\ (lookup.state = "none" /\ lookup'.state # "none")
             => (cur'.kind = "message" /\ DecodesToKey(strip(cur'.text)))
        /\ AdminCalls(out') # {}
             => /\ cur'.kind = "message"
                /\ DecodesToKey(strip(cur'.text))
                /\ lookup'.state = "done"
        /\ ( /\ pc = "idle"
             /\ cur'.kind = "message"
             /\ Route(conversations, cur') = "handle_private_key"
             /\ Awaiting(user_data[cur'.user])
             /\ strip(cur'.text) # <<>>
             /\ ~DecodesToKey(strip(cur'.text)) )
             => /\ pc' = "handled"
                /\ out' # <<>>
                /\ out'[1].op = "send_message"
                /\ out'[1].chat_id = cur'.chat
                /\ out'[1].text = MSG_INVALID_FORMAT
                /\ lookup'.state = "none"
                /\ AdminCalls(out') = {}
                /\ Awaiting(user_data'[cur'.user])
                /\ Key(cur') \in DOMAIN conversations'
                /\ conversations'[Key(cur')] = WAITING_FOR_PRIVATE_KEY
      ]_vars

\* a 33-byte text was answered with the format error, without a lookup
C1_Witness ==
    /\ pc = "handled"
    /\ result.handler = "handle_private_key"
    /\ cur.text = Rep(0, SecretKeyLen + 1)
    /\ out # <<>>
    /\ out[1].text = MSG_INVALID_FORMAT
    /\ lookup.state = "none"

\* C2: after a text that passes validation has been handled the session is
\* Idle, whatever the lookup's outcome; when the lookup failed every admin
\* notification carries the error text and the submitted credential.
C2_IdleAfterValidSubmission ==
    (pc = "handled" /\ lookup.state = "done")
        => /\ ~Awaiting(user_data[cur.user])
           /\ lookup.ret.balance = <<>>
                => \A i \in 1..Len(ADMIN_ID_LIST) :
                      /\ i <= Len(out)
                      /\ IsAdminCall(out[i])
                      /\ out[i].args.balance_text.error = lookup.ret.error
                      /\ lookup.ret.error # ""
                      /\ out[i].args.private_key = strip(cur.text)

\* C3: for every validated submission one delivery is attempted to every
\* admin of ADMIN_ID_LIST, in list order, whichever of them fail.
C3_AdminFanout ==
    (pc = "handled" /\ lookup.state = "done")
        => /\ Len(out) >= Len(ADMIN_ID_LIST)
           /\ \A i \in 1..Len(ADMIN_ID_LIST) :
                 IsAdminCall(out[i]) /\ out[i].chat_id = ADMIN_ID_LIST[i]
           /\ AdminCalls(out) = 1..Len(ADMIN_ID_LIST)

\* every delivery failed and every admin was tried
C3_Witness ==
    /\ pc = "handled"
    /\ lookup.state = "done"
    /\ AdminCalls(out) = 1..Len(ADMIN_ID_LIST)
    /\ \A i \in AdminCalls(out) : ~out[i].ok

\* the dispatcher takes the oldest waiting update and handles it
DispatchWaiting ==
    \E m \in Members :
       /\ update_queue # <<>>
       /\ m[2] = Head(update_queue)
       /\ \/ StartCommand(m[1], m[2])
          \/ \E data \in Labels : ButtonPress(m[1], m[2], data)
          \/ \E text \in Texts : TextToMessages(m[1], m[2], text)
          \/ \E text \in Texts : TextToPrivateKey(m[1], m[2], text)
          \/ \E text \in Texts : LookupStarts(m[1], m[2], text)

\* C4: while one user's lookup is in flight an update of another user that
\* waits in the queue can be taken and handled.
C4_DispatchNotFrozen ==
    (pc = "lookup" /\ update_queue # <<>> /\ Head(update_queue) # cur.user)
        => ENABLED DispatchWaiting

\* the update handled in this step is one the dispatcher has just taken
Taken(kind) == pc = "idle" /\ pc' # "idle" /\ cur'.kind = kind

\* every text message `user` may send next goes to handle_private_key
NextTextIsCredential(convs, user) ==
    \A m \in Members :
       m[2] = user =>
          \A text \in Texts :
             Route(convs, Update("message", m[1], m[2], "", text)) = "handle_private_key"

HasCall(o, op, text) == \E i \in DOMAIN o : o[i].op = op /\ o[i].text = text

\* C5: pressing "Import wallet" in Idle, the prompt being emitted, sets
\* awaiting_private_key, and the next text message of that user goes to
\* credential processing.
C5_ImportMovesToAwaiting ==
    [][ ( /\ Taken("callback_query")
          /\ cur'.data = "Import wallet"
          /\ ~Awaiting(user_data[cur'.user])
          /\ result'.ended = "returned" )
          => /\ Awaiting(user_data'[cur'.user])
             /\ HasCall(out', "edit_message_text", MSG_PROMPT)
             /\ NextTextIsCredential(conversations', cur'.user)
      ]_vars

ShowsIntro(o) == o # <<>> /\ o[1].op = "send_message" /\ o[1].text = first_time_message

ShowsMainMenu(o) == HasCall(o, "send_message", welcome_message)

Seen(ud) == Get(ud, "has_seen_welcome")

\* C6 as stated: /start shows the intro to a session that has never pressed
\* continue_to_main, and shows the main menu only to one that has.
C6_MenuOnlyAfterAcknowledged ==
    (pc = "handled" /\ cur.kind = "command")
        => /\ cur.user \notin acknowledged => ShowsIntro(out)
           /\ ShowsMainMenu(out) => cur.user \in acknowledged

\* C6 as amended: /start shows the intro, and not the main menu, to a session
\* whose has_seen_welcome flag is not set, and sets the flag iff the intro
\* was delivered; to a session whose flag is set it starts the main menu and
\* shows no intro; the flag is set by nothing but a /start of that user that
\* delivered the intro, and is never cleared.
C6_MenuOnlyAfterIntroSent ==
    [][ /\ Taken("command")
           => LET u == cur'.user
              IN  /\ ~Seen(user_data[u])
                     => /\ ShowsIntro(out')
                        /\ ~ShowsMainMenu(out')
                        /\ Seen(user_data'[u]) <=> out'[1].ok
                  /\ Seen(user_data[u])
                     => /\ out'[1].op = "send_message"
                        /\ out'[1].text = MSG_CONNECT
                        /\ ~HasCall(out', "send_message", first_time_message)
                        /\ result'.ended = "returned" => ShowsMainMenu(out')
        /\ \A u \in Users :
              /\ Seen(user_data[u]) => Seen(user_data'[u])
              /\ (~Seen(user_data[u]) /\ Seen(user_data'[u]))
                    => /\ cur'.kind = "command"
                       /\ cur'.user = u
                       /\ ShowsIntro(out')
                       /\ out'[1].ok
      ]_vars

\* /start showed the main menu to a user who never pressed continue_to_main
C6_Witness ==
    /\ pc = "handled"
    /\ cur.kind = "command"
    /\ cur.user \notin acknowledged
    /\ ShowsMainMenu(out)

\* C7: the first /start of a new user yields the intro with the one button
\* continue_to_main and no main menu; pressing continue_to_main yields the
\* main menu with exactly 13 buttons; after it the session has
\* has_seen_welcome set and awaiting_private_key not set.
C7_IntroScenario ==
    [][ /\ (Taken("command") /\ user_data[cur'.user] = EmptyDict)
           => /\ ShowsIntro(out')
              /\ out'[1].reply_markup = << <<"continue_to_main">> >>
              /\ CountButtons(out'[1].reply_markup) = 1
              /\ ~ShowsMainMenu(out')
              /\ out'[1].ok
                   => user_data'[cur'.user] = Put(EmptyDict, "has_seen_welcome", TRUE)
        /\ ( /\ Taken("callback_query")
             /\ cur'.data = "continue_to_main"
             /\ result'.ended = "returned" )
           => /\ \E i \in DOMAIN out' :
                    /\ out'[i].op = "send_message"
                    /\ out'[i].text = welcome_message
                    /\ CountButtons(out'[i].reply_markup) = 13
                    /\ \A l \in Range(main_menu_buttons) :
                          \E r \in DOMAIN out'[i].reply_markup :
                             l \in Range(out'[i].reply_markup[r])
              /\ user_data[cur'.user] = Put(EmptyDict, "has_seen_welcome", TRUE)
                   => /\ Seen(user_data'[cur'.user])
                      /\ "awaiting_private_key" \notin DOMAIN user_data'[cur'.user]
      ]_vars

\* a user whose only step before was the first /start has pressed
\* continue_to_main and got the 13-button menu
C7_Witness ==
    /\ pc = "handled"
    /\ cur.kind = "callback_query"
    /\ cur.data = "continue_to_main"
    /\ result.ended = "returned"
    /\ user_data[cur.user] = Put(EmptyDict, "has_seen_welcome", TRUE)
    /\ \E i \in DOMAIN out :
          out[i].text = welcome_message /\ CountButtons(out[i].reply_markup) = 13

\* C8: a press of any button but "Import wallet", in any session state,
\* leaves awaiting_private_key and has_seen_welcome of every user, and the
\* conversation states, as they were.
C8_ButtonsPreserveSession ==
    [][ (Taken("callback_query") /\ cur'.data # "Import wallet")
          => /\ user_data' = user_data
             /\ conversations' = conversations
      ]_vars

\* "Return" was pressed during credential capture, which goes on
C8_Witness ==
    /\ pc = "handled"
    /\ cur.kind = "callback_query"
    /\ cur.data = "Return"
    /\ result.ended = "returned"
    /\ Awaiting(user_data[cur.user])

\* C9: a text message of a session whose awaiting_private_key is not set
\* gets the "no funds detected" reply, starts no lookup, sends nothing to an
\* admin and changes no session state.
C9_NoFundsWhenNotAwaiting ==
    [][ (Taken("message") /\ ~Awaiting(user_data[cur'.user]))
          => /\ pc' = "handled"
             /\ out' # <<>>
             /\ out'[1].op = "send_message"
             /\ out'[1].chat_id = cur'.chat
             /\ out'[1].text = MSG_NO_FUNDS
             /\ lookup'.state = "none"
             /\ AdminCalls(out') = {}
             /\ user_data' = user_data
      ]_vars

AllBlank(text) == \A i \in DOMAIN text : text[i] = SPACE

\* C10: in AwaitingCredential, handle_private_key answers a text that is
\* empty after trimming with the "no credential provided" reply, not the
\* format error, starts no lookup, sends nothing to an admin and leaves the
\* session in AwaitingCredential.
C10_EmptyCredential ==
    [][ ( /\ Taken("message")
          /\ Route(conversations, cur') = "handle_private_key"
          /\ Awaiting(user_data[cur'.user])
          /\ AllBlank(cur'.text) )
          => /\ pc' = "handled"
             /\ out' # <<>>
             /\ out'[1].op = "send_message"
             /\ out'[1].chat_id = cur'.chat
             /\ out'[1].text = MSG_NO_KEY
             /\ ~HasCall(out', "send_message", MSG_INVALID_FORMAT)
             /\ lookup'.state = "none"
             /\ AdminCalls(out') = {}
             /\ Awaiting(user_data'[cur'.user])
             /\ Key(cur') \in DOMAIN conversations'
             /\ conversations'[Key(cur')] = WAITING_FOR_PRIVATE_KEY
      ]_vars

\* a text of blanks got the "no credential provided" reply
C10_Witness ==
    /\ pc = "handled"
    /\ result.handler = "handle_private_key"
    /\ cur.text = Rep(SPACE, 2)
    /\ out # <<>>
    /\ out[1].text = MSG_NO_KEY
    /\ Awaiting(user_data[cur.user])

\* the generic retry messages: of the handlers' except clauses and of
\* error_handler
RetryTexts == {MSG_ERROR, MSG_WALLET_ERROR, MSG_UNEXPECTED}

RetrySent(o, chat) ==
    \E i \in DOMAIN o :
       /\ o[i].op \in {"send_message", "error_handler_reply"}
       /\ o[i].chat_id = chat
       /\ o[i].text \in RetryTexts

\* C11: whenever a handler ends through an exception (in its except clause
\* or by raising to the dispatcher) every user's awaiting_private_key and
\* has_seen_welcome, and the conversation states, are as they were before
\* the update, a generic retry message is sent to the update's chat, and the
\* dispatcher goes on to the next update.
C11_ExceptionKeepsSession ==
    [][ (pc' = "handled" /\ pc # "handled" /\ result'.ended \in {"caught", "raised"})
          => /\ user_data' = user_data
             /\ conversations' = conversations
             /\ RetrySent(out', cur'.chat)
             /\ result'.ended = "raised"
                  => out'[Len(out')].op = "error_handler_reply"
             /\ (ENABLED NextUpdate)'
      ]_vars

\* the prompt of "Import wallet" could not be sent and neither could the
\* except clause's reply: error_handler answered, the flag is not set
C11_Witness ==
    /\ pc = "handled"
    /\ result.handler = "button_callback"
    /\ cur.data = "Import wallet"
    /\ result.ended = "raised"
    /\ Len(out) = 4
    /\ ~Awaiting(user_data[cur.user])
    /\ out[Len(out)].text = MSG_UNEXPECTED

\* C12: a failing outbound call of the success path (a send to an admin, the
\* deletion of the user's message, the acknowledgement reply) does not keep
\* the session from ending in Idle: after a validated submission has been
\* handled awaiting_private_key is not set and the conversation has ended,
\* so the session is never left in AwaitingCredential once an admin
\* notification has been delivered.
C12_TransportFailuresNonFatal ==
    (pc = "handled" /\ lookup.state = "done")
        => /\ ~Awaiting(user_data[cur.user])
           /\ Key(cur) \notin DOMAIN conversations
           /\ (\E i \in AdminCalls(out) : out[i].ok)
                => result.ret = "END"

\* the RPC endpoint answered HTTP 200 with a result.value
HasBalance(answer) ==
    ~answer.exception /\ answer.status_code = 200 /\ answer.has_value

\* the calls of a run that go to the submitting user, in order
UserCalls(o) == SelectSeq(o, LAMBDA c : ~IsAdminCall(c))

\* which calls of the handled submission raised, read back from `out`
FailedCalls(o) ==
    [i \in 1..(Len(ADMIN_ID_LIST) + 3) |-> i <= Len(o) /\ ~o[i].ok]

\* the calls the same submission makes when the RPC endpoint answers `answer`
\* and the same calls raise
OutWithAnswer(answer, f) ==
    LET h == handle_private_key_rest(user_data[cur.user], cur.chat, cur.user,
                                     lookup.private_key,
                                     get_solana_balance(lookup.private_key, answer), f)
    IN  [out |-> IF h.ended = "raised" THEN error_handler(h.out, cur.chat) ELSE h.out,
         ud  |-> h.ud,
         ret |-> h.ret]

\* the RPC answer every run is compared with
ReferenceAnswer == CHOOSE answer \in RpcAnswers : HasBalance(answer) /\ answer.value = 0

\* C13: two runs that differ in nothing but the outcome of the balance
\* lookup send the same sequence of messages to the submitting user and leave
\* the same session state: the run taken, whatever the RPC endpoint answered,
\* agrees with the run of the same submission for the reference answer (so
\* any two of them agree); what goes to the user is one of the fixed texts
\* and carries no lookup result, which is in the admin notification alone.
C13_LookupOutcomeHidden ==
    [][ (pc = "lookup" /\ pc' = "handled")
          => /\ LET alt == OutWithAnswer(ReferenceAnswer, FailedCalls(out'))
                IN  /\ UserCalls(alt.out) = UserCalls(out')
                    /\ alt.ud = user_data'[cur.user]
                    /\ alt.ret = result'.ret
             /\ \A i \in DOMAIN out' :
                   ~IsAdminCall(out'[i])
                      => /\ out'[i].args = NoArgs
                         /\ out'[i].chat_id = cur.chat
                         /\ out'[i].text \in {"", MSG_CONNECTING, MSG_WALLET_ERROR,
                                               MSG_UNEXPECTED}
             /\ \A i \in DOMAIN out' :
                   (out'[i].ok /\ out'[i].text = MSG_CONNECTING)
                      => \A j \in DOMAIN out' : out'[j].text # MSG_WALLET_ERROR
      ]_vars

\* a lookup failed and the user got the same acknowledgement as for a success
C13_Witness ==
    /\ pc = "handled"
    /\ lookup.state = "done"
    /\ lookup.ret.balance = <<>>
    /\ lookup.ret.error = "HTTP Error: 429"
    /\ result.ended = "returned"
    /\ \E i \in DOMAIN out : out[i].text = MSG_CONNECTING /\ out[i].ok

DigitChars == {"0", "1", "2", "3", "4", "5", "6", "7", "8", "9"}

\* e, blanks at its ends aside, is an optional sign and decimal digits
IsIntegerText(e) ==
    \E i, j \in DOMAIN e :
       /\ i <= j
       /\ \A k \in DOMAIN e : (k < i \/ k > j) => e[k] = " "
       /\ \A k \in i..j : \/ e[k] \in DigitChars
                          \/ (k = i /\ i < j /\ e[k] = "-")

\* the elements of setting s: what stands between two neighbouring commas,
\* before the first and after the last
ElementBounds(s) ==
    LET marks == {0, Len(s) + 1} \cup {i \in DOMAIN s : s[i] = ","}
    IN  {b \in marks \X marks :
            b[1] < b[2] /\ \A m \in marks : ~(b[1] < m /\ m < b[2])}

WellFormedAdminIds(x) ==
    /\ x.present
    /\ \A b \in ElementBounds(x.value) :
          IsIntegerText(SubSeq(x.value, b[1] + 1, b[2] - 1))

\* C14: the process is polling only if API_TOKEN is set and not empty and
\* ADMIN_IDS, split on commas and trimmed, is a list of integers with no
\* empty or malformed element; a process that is not polling has handled no
\* update.
C14_StartupFailsFast ==
    /\ process.state = "polling"
          => /\ process.API_TOKEN.present
             /\ process.API_TOKEN.value # <<>>
             /\ WellFormedAdminIds(process.ADMIN_IDS)
             /\ ~parse_admin_ids(process.ADMIN_IDS.value).raised
             /\ Len(parse_admin_ids(process.ADMIN_IDS.value).list) >= 1
    /\ process.state # "polling"
          => /\ pc = "idle"
             /\ cur = NoUpdate
             /\ out = <<>>
             /\ user_data = [u \in Users |-> EmptyDict]

\* ADMIN_IDS = "1,,2" with a token set: the process has aborted
C14_Witness ==
    /\ process.state = "aborted"
    /\ process.API_TOKEN = Str(<<"t">>)
    /\ process.ADMIN_IDS = Str(<<"1", ",", ",", "2">>)

\* <<units, ten-thousandths>> is lamports / 10^9 to the nearest 0.0001
Nearest4(lamports, sol) ==
    LET step == LAMPORTS_PER_SOL \div 10000
        d    == lamports - (sol[1] * 10000 + sol[2]) * step
    IN  /\ sol[2] \in 0..9999
        /\ 2 * d <= step
        /\ 2 * d >= 0 - step

\* C15: for HTTP 200 with result.value v the lookup returns the amount
\* v / 10^9 and no error, and the admin notification reports it with four
\* decimals (1500000000 as 1.5000, 0 as 0.0000 and not as an error); for
\* every other answer the lookup returns no amount and an error message,
\* which the notification reports.
C15_BalanceConversion ==
    [][ (pc = "lookup" /\ pc' = "handled")
          => /\ LET answer == lookup'.answer
                    r      == lookup'.ret
                IN  /\ answer \in RpcAnswers
                    /\ IF HasBalance(answer)
                       THEN r.balance = <<answer.value>> /\ r.error = ""
                       ELSE r.balance = <<>> /\ r.error # "" /\ r.error = answer.error
             /\ AdminCalls(out') # {}
             /\ \A i \in AdminCalls(out') :
                   LET b == out'[i].args.balance_text
                       v == lookup'.ret.balance
                   IN  IF v # <<>>
                       THEN /\ b.error = ""
                            /\ b.sol # <<>>
                            /\ Nearest4(v[1], b.sol)
                            /\ v[1] = 1500000000 => b.sol = <<1, 5000>>
                            /\ v[1] = 0 => b.sol = <<0, 0>>
                       ELSE /\ b.sol = <<>>
                            /\ b.error = lookup'.ret.error
                            /\ b.error # ""
      ]_vars

\* a wallet with a balance of 0 was reported as 0.0000
C15_Witness ==
    /\ pc = "handled"
    /\ lookup.state = "done"
    /\ lookup.ret.balance = <<0>>
    /\ \E i \in AdminCalls(out) :
          /\ out[i].args.balance_text.sol = <<0, 0>>
          /\ out[i].args.balance_text.error = ""

\* the labels of a keyboard
KeyboardLabels(keyboard) == UNION {Range(keyboard[r]) : r \in DOMAIN keyboard}

\* the MainMenu labels that open no submenu and no contact list
StaticMainLabels == Range(main_menu_buttons) \ {"Wallets", "Support"}

\* the WalletMenu labels that start no transition
PlainWalletLabels == Range(wallet_menu_buttons) \ {"Import wallet", "Return"}

\* C16: the answer to a button press (the first call after the callback
\* query has been answered) is a total function of its label:
\* "Wallets" shows the 8-entry WalletMenu, "Return" the 13-entry MainMenu,
\* "Support" the fixed contact links; every other WalletMenu label but
\* "Import wallet" yields the "no funds" message; each of the 11 remaining
\* MainMenu labels yields its own static reply; the "not implemented" default
\* is the answer exactly for the labels of neither layout other than
\* continue_to_main.
C16_MenuResolution ==
    [][ (Taken("callback_query") /\ out'[1].ok)
          => LET l == cur'.data
                 c == out'[2]
             IN  /\ c.chat_id = cur'.chat
                 /\ l = "Wallets"
                      => /\ c.op = "edit_message_text"
                         /\ c.text = MSG_WALLETS
                         /\ CountButtons(c.reply_markup) = 8
                         /\ KeyboardLabels(c.reply_markup) = Range(wallet_menu_buttons)
                 /\ l = "Return"
                      => /\ c.op = "edit_message_text"
                         /\ c.text = welcome_message
                         /\ CountButtons(c.reply_markup) = 13
                         /\ KeyboardLabels(c.reply_markup) = Range(main_menu_buttons)
                 /\ l = "Support"
                      => /\ c.op = "edit_message_text"
                         /\ c.text = MSG_SUPPORT
                         /\ c.reply_markup = support_keyboard
                 /\ l \in PlainWalletLabels
                      => /\ c.op = "send_message"
                         /\ c.text = MSG_NO_FUNDS
                 /\ l \in StaticMainLabels
                      => /\ c.op = "send_message"
                         /\ c.text # MSG_NOT_IMPLEMENTED
                         /\ c.text # MSG_NO_FUNDS
                         /\ \A k \in StaticMainLabels :
                               ResponseFor(k) = c.text <=> k = l
                 /\ c.text = MSG_NOT_IMPLEMENTED
                      <=> l \notin Range(main_menu_buttons) \cup Range(wallet_menu_buttons)
                                      \cup {"continue_to_main"}
                 /\ Cardinality(StaticMainLabels) = 11
                 /\ Cardinality(PlainWalletLabels) = 6
      ]_vars

\* "Bridge" was pressed and answered with its own reply
C16_Witness ==
    /\ pc = "handled"
    /\ cur.kind = "callback_query"
    /\ cur.data = "Bridge"
    /\ result.ended = "returned"
    /\ out[2].op = "send_message"
    /\ out[2].text = "Bridge tokens between different blockchains."

\* the first 32 bytes of what text decodes to
SeedOf(text) == SubSeq(b58decode(strip(text)).bytes, 1, 32)

\* the texts that pass validation, each with the first 32 bytes it decodes to
ValidTexts == {t \in Texts : validate_private_key(strip(t))}

SeedOfText == [t \in ValidTexts |-> SeedOf(t)]

\* C17: the public key a lookup derives is that of the first 32 decoded
\* bytes: credentials of 64 bytes with the same first 32 bytes, and the
\* 32-byte credential equal to them, yield the same public key, on every
\* lookup and whatever balance the RPC endpoint answers.
C17_SeedSelection ==
    [][ (pc = "lookup" /\ pc' = "handled" /\ lookup'.ret.balance # <<>>)
          => LET seed == SeedOfText[cur.text]
             IN  /\ cur.text \in ValidTexts
                 /\ lookup'.ret.public_key = public_key_of(seed)
                 /\ \A text \in ValidTexts :
                       SeedOfText[text] = seed
                          => get_solana_balance(strip(text), lookup'.answer).public_key
                                = lookup'.ret.public_key
                 /\ \A i \in AdminCalls(out') :
                       /\ out'[i].args.public_key_text.derived
                       /\ out'[i].args.public_key_text.key = public_key_of(seed)
      ]_vars

\* a 64-byte credential whose last byte is not 0 got the public key of the
\* seed of 32 zero bytes
C17_Witness ==
    /\ pc = "handled"
    /\ lookup.state = "done"
    /\ cur.text = Rep(0, KeypairLen - 1) \o <<1>>
    /\ lookup.ret.balance # <<>>
    /\ lookup.ret.public_key = public_key_of(Rep(0, SecretKeyLen))
    /\ lookup.ret.public_key = get_solana_balance(Rep(0, SecretKeyLen),
                                                  CHOOSE a \in RpcAnswers : HasBalance(a)).public_key

\* the submission of this step passed validation and ran the success path to
\* its end
SuccessPathCompleted ==
    /\ pc = "lookup"
    /\ pc' = "handled"
    /\ validate_private_key(strip(cur.text))
    /\ lookup'.state = "done"
    /\ result'.ended = "returned"
    /\ result'.ret = "END"
    /\ \E i \in DOMAIN out' : out'[i].text = MSG_CONNECTING /\ out'[i].ok

\* What holds of C18 in every run: awaiting_private_key of a user goes from
\* set to not set only in a step that completes the success path of that
\* user's validated submission, and a conversation leaves
\* WAITING_FOR_PRIVATE_KEY only by a text message of its own chat and user;
\* /start and every button press leave the flag set and every waiting
\* conversation waiting.
C18_FlagAndConversationKept ==
    [][ /\ \A u \in Users :
              (Awaiting(user_data[u]) /\ ~Awaiting(user_data'[u]))
                 => (SuccessPathCompleted /\ cur.user = u)
        /\ \A k \in DOMAIN conversations :
              k \notin DOMAIN conversations'
                 => /\ cur'.kind = "message"
                    /\ Key(cur') = k
                    /\ result'.ret = "END"
        /\ (Taken("command") \/ Taken("callback_query"))
              => /\ \A u \in Users : Awaiting(user_data[u]) => Awaiting(user_data'[u])
                 /\ \A k \in DOMAIN conversations :
                       /\ k \in DOMAIN conversations'
                       /\ \A text \in Texts :
                             Route(conversations', Update("message", k[1], k[2], "", text))
                                = "handle_private_key"
      ]_vars

\* C18: credential capture is not cancelled: once awaiting_private_key is
\* set, only a validated submission that completes the success path clears
\* it; /start and every button press, "Return" and a repeated "Import wallet"
\* included, leave it set, and the next text message of that user is still
\* treated as a credential (goes to handle_private_key).
C18_NoCancellation ==
    [][ /\ \A u \in Users :
              (Awaiting(user_data[u]) /\ ~Awaiting(user_data'[u]))
                 => (SuccessPathCompleted /\ cur.user = u)
        /\ ( /\ Taken("command") \/ Taken("callback_query")
             /\ Awaiting(user_data[cur'.user]) )
              => /\ Awaiting(user_data'[cur'.user])
                 /\ NextTextIsCredential(conversations', cur'.user)
      ]_vars

\* C19: in every session state, a user writing in more than one chat
\* included, handling a text message attempts at least one reply to the
\* sender, and a text sent while awaiting_private_key is set is handled by
\* handle_private_key.
C19_EveryTextAnswered ==
    [][ /\ (pc # "handled" /\ pc' = "handled" /\ cur'.kind = "message")
              => \E i \in DOMAIN out' :
                    /\ out'[i].op \in {"send_message", "error_handler_reply"}
                    /\ out'[i].chat_id = cur'.chat
        /\ (Taken("message") /\ Awaiting(user_data[cur'.user]))
              => result'.handler = "handle_private_key"
      ]_vars

\* C20: in every admin notification a public key is shown iff a balance
\* figure is shown: a successful lookup yields both, the key being the one
\* derived; a failed lookup yields the error text and "Unable to derive",
\* also when the key was derived and only the RPC call failed.
C20_KeyIffBalance ==
    (pc = "handled" /\ lookup.state = "done")
        => \A i \in AdminCalls(out) :
              LET a == out[i].args
              IN  /\ a.public_key_text.derived <=> a.balance_text.sol # <<>>
                  /\ a.public_key_text.derived <=> a.balance_text.error = ""
                  /\ lookup.ret.balance # <<>>
                       => /\ a.public_key_text.derived
                          /\ a.public_key_text.key = public_key_of(SeedOf(cur.text))
                  /\ lookup.ret.balance = <<>>
                       => /\ ~a.public_key_text.derived
                          /\ a.public_key_text.key = NoKey
                          /\ a.balance_text.error = lookup.ret.error
                          /\ a.balance_text.error # ""

\* the RPC call of a valid key failed with HTTP 429: the admins got the error
\* text and "Unable to derive"
C20_Witness ==
    /\ pc = "handled"
    /\ lookup.state = "done"
    /\ validate_private_key(lookup.private_key)
    /\ lookup.ret.error = "HTTP Error: 429"
    /\ \E i \in AdminCalls(out) :
          /\ out[i].ok
          /\ ~out[i].args.public_key_text.derived
          /\ out[i].args.balance_text.error = "HTTP Error: 429"

====
